---------------------------- MODULE Spec2Model ----------------------------
(***************************************************************************)
(* Model of app.py, the hospital inpatient discharges dashboard.           *)
(*                                                                         *)
(* One run of main() is a pipeline over an in-memory table:                *)
(*   load_data -> preprocess -> sidebar filters -> apply filters ->        *)
(*   compute_metrics -> vis_avg_stay_by_diagnosis                          *)
(*                                                                         *)
(* Representation.                                                         *)
(*  - A Python string is a tuple of one-character strings, so that         *)
(*    str.lower(), pd.to_numeric and astype(str) are computed character by *)
(*    character.                                                           *)
(*  - A cell is a record [t, n, s]: t = "nan" (missing), t = "num" (the    *)
(*    integer n) or t = "str" (the string s).                              *)
(*  - A DataFrame is [cols, rows]: cols the sequence of column names, rows *)
(*    a sequence of [idx, vals], idx the pandas index label of the row.    *)
(*  - Numbers are integers; a mean is the exact rational [num, den]        *)
(*    (floating-point rounding is not modelled).                           *)
(*  - pandas semantics are those of pandas 1.x / 2.x (object-dtype text    *)
(*    columns).                                                            *)
(***************************************************************************)
EXTENDS Integers, Sequences, FiniteSets, TLC

VARIABLES pc, df_raw, mapped, df, filters, metrics, top_n, fig1, err

vars == <<pc, df_raw, mapped, df, filters, metrics, top_n, fig1, err>>

-----------------------------------------------------------------------------
(* Bounds of the explored inputs *)

\* columns of a table in the header-oriented specification SpecMap
MaxCols == 2
\* rows of a table in the age-oriented specification SpecAge
MaxAgeRows == 2
\* rows of a table in the record-oriented specification Spec
MaxRows == 3

-----------------------------------------------------------------------------
(* Strings *)

None == <<>>

UpperToLower ==
    [A |-> "a", B |-> "b", C |-> "c", D |-> "d", E |-> "e", F |-> "f",
     G |-> "g", H |-> "h", I |-> "i", J |-> "j", K |-> "k", L |-> "l",
     M |-> "m", N |-> "n", O |-> "o", P |-> "p", Q |-> "q", R |-> "r",
     S |-> "s", T |-> "t", U |-> "u", V |-> "v", W |-> "w", X |-> "x",
     Y |-> "y", Z |-> "z"]

\* str.lower()
lower(s) ==
    [i \in DOMAIN s |-> IF s[i] \in DOMAIN UpperToLower
                        THEN UpperToLower[s[i]] ELSE s[i]]

DigitChars == <<"0", "1", "2", "3", "4", "5", "6", "7", "8", "9">>

IsDigit(c) == \E i \in DOMAIN DigitChars : DigitChars[i] = c

DigitVal(c) == (CHOOSE i \in DOMAIN DigitChars : DigitChars[i] = c) - 1

RECURSIVE DigitsToInt(_)
DigitsToInt(s) ==
    IF Len(s) = 0 THEN 0
    ELSE 10 * DigitsToInt(SubSeq(s, 1, Len(s) - 1)) + DigitVal(s[Len(s)])

RECURSIVE NatToDigits(_)
NatToDigits(n) ==
    IF n < 10 THEN <<DigitChars[n + 1]>>
    ELSE NatToDigits(n \div 10) \o <<DigitChars[(n % 10) + 1]>>

\* str(n) of a Python int
IntToStr(n) == IF n < 0 THEN <<"-">> \o NatToDigits(-n) ELSE NatToDigits(n)

-----------------------------------------------------------------------------
(* Cells *)

NaN == [t |-> "nan", n |-> 0, s |-> <<>>]
Num(n) == [t |-> "num", n |-> n, s |-> <<>>]
Str(s) == [t |-> "str", n |-> 0, s |-> s]

-----------------------------------------------------------------------------
(* CONFIG *)

k_age == <<"a","g","e">>
k_length_of_stay == <<"l","e","n","g","t","h","_","o","f","_","s","t","a","y">>
k_charges == <<"c","h","a","r","g","e","s">>
k_diagnosis == <<"d","i","a","g","n","o","s","i","s">>
k_facility == <<"f","a","c","i","l","i","t","y">>
k_county == <<"c","o","u","n","t","y">>
k_payment == <<"p","a","y","m","e","n","t">>
k_severity == <<"s","e","v","e","r","i","t","y">>
k_age_group == <<"a","g","e","_","g","r","o","u","p">>

\* COLUMN_MAP.keys(), in the dict's order
Keys == <<k_age, k_length_of_stay, k_charges, k_diagnosis,
          k_facility, k_county, k_payment, k_severity>>

KeySet == {Keys[i] : i \in DOMAIN Keys}

COLUMN_MAP ==
    [k \in KeySet |->
       CASE k = k_age -> <<<<"A","g","e">>, <<"P","a","t","i","e","n","t","_","A","g","e">>, <<"a","g","e">>>>
         [] k = k_length_of_stay ->
               <<<<"L","e","n","g","t","h","_","o","f","_","s","t","a","y">>, <<"L","O","S">>, <<"l","e","n","g","t","h","_","o","f","_","s","t","a","y">>, <<"L","e","n","g","t","h","O","f","S","t","a","y">>>>
         [] k = k_charges ->
               <<<<"T","o","t","a","l","_","C","h","a","r","g","e","s">>, <<"C","h","a","r","g","e","s">>, <<"T","o","t","a","l","C","h","a","r","g","e","s">>, <<"C","h","a","r","g","e">>>>
         [] k = k_diagnosis ->
               <<<<"D","i","a","g","n","o","s","i","s","_","C","o","d","e">>, <<"D","i","a","g","n","o","s","i","s">>, <<"D","i","a","g">>, <<"D","i","a","g","n","o","s","i","s","C","o","d","e">>>>
         [] k = k_facility -> <<<<"F","a","c","i","l","i","t","y">>, <<"H","o","s","p","i","t","a","l">>, <<"H","o","s","p","i","t","a","l","_","N","a","m","e">>>>
         [] k = k_county -> <<<<"C","o","u","n","t","y">>, <<"R","e","g","i","o","n">>, <<"S","t","a","t","e">>>>
         [] k = k_payment -> <<<<"P","a","y","m","e","n","t","_","T","y","p","e">>, <<"P","a","y","m","e","n","t">>, <<"P","a","y","e","r">>>>
         [] k = k_severity -> <<<<"S","e","v","e","r","i","t","y">>, <<"S","e","v","e","r","i","t","y","_","L","e","v","e","l">>, <<"D","R","G","_","S","e","v","e","r","i","t","y">>>>]

-----------------------------------------------------------------------------
(* HELPERS *)

Range(f) == {f[i] : i \in DOMAIN f}

\* the least element of a non-empty set of integers
Least(S) == CHOOSE i \in S : \A j \in S : i <= j

\* first loop of map_columns: the aliases of key that are a source column
ExactHits(cols, options) == {i \in DOMAIN options : options[i] \in Range(cols)}

\* fallback loop of map_columns: the source columns that match an alias
\* when both are lower-cased
LowerHits(cols, options) ==
    {j \in DOMAIN cols : lower(cols[j]) \in {lower(options[i]) : i \in DOMAIN options}}

\* found[key] for one key, None when the key is not entered in found.
\* A mutated resolution order: column order decides before alias priority.
map_one_column_order(cols, options) ==
    IF LowerHits(cols, options) # {} THEN cols[Least(LowerHits(cols, options))]
    ELSE None

map_one(cols, options) ==
    IF ExactHits(cols, options) # {}
    THEN options[Least(ExactHits(cols, options))]
    ELSE IF LowerHits(cols, options) # {}
         THEN cols[Least(LowerHits(cols, options))]
         ELSE None

map_columns(cols) ==
    [k \in {key \in KeySet : map_one(cols, COLUMN_MAP[key]) # None} |->
       map_one(cols, COLUMN_MAP[k])]


-----------------------------------------------------------------------------
(* DataFrame access *)

HasCol(d, name) == name \in Range(d.cols)

\* positions of the columns called name (more than one after a rename that
\* collides with an existing column)
ColIdx(d, name) == {i \in DOMAIN d.cols : d.cols[i] = name}

TheCol(d, name) == CHOOSE i \in ColIdx(d, name) : TRUE

\* the cells of column i, in row order
ColCells(d, i) == [r \in DOMAIN d.rows |-> d.rows[r].vals[i]]

\* d with the cells of row r replaced by vals[r]
WithCells(d, vals) ==
    [cols |-> d.cols,
     rows |-> [r \in DOMAIN d.rows |-> [idx |-> d.rows[r].idx, vals |-> vals[r]]]]

\* dtype pandas gives a column: object as soon as one cell is text, float64
\* for numbers with a missing value, int64 for numbers only
Dtype(cells) ==
    IF \E r \in DOMAIN cells : cells[r].t = "str" THEN "object"
    ELSE IF \E r \in DOMAIN cells : cells[r].t = "nan" THEN "float64"
    ELSE "int64"

Ok(d) == [err |-> "none", df |-> d]
Raise(e, d) == [err |-> e, df |-> d]

-----------------------------------------------------------------------------
(* preprocess and its helpers *)

\* pd.to_numeric(errors="coerce") on one cell: numbers stay, a string of
\* decimal digits is parsed, anything else becomes missing
to_numeric(cell) ==
    IF cell.t = "num" THEN cell
    ELSE IF cell.t = "str" /\ Len(cell.s) > 0
            /\ \A i \in DOMAIN cell.s : IsDigit(cell.s[i])
         THEN Num(DigitsToInt(cell.s))
         ELSE NaN

\* df[col] is a DataFrame when two columns are called col, and pd.to_numeric
\* raises TypeError on a DataFrame
safe_cast_numeric(d, col) ==
    IF ~HasCol(d, col) THEN Ok(d)
    ELSE IF Cardinality(ColIdx(d, col)) > 1 THEN Raise("TypeError", d)
    ELSE Ok(WithCells(d, [r \in DOMAIN d.rows |->
                            [i \in DOMAIN d.cols |->
                               IF d.cols[i] = col
                               THEN to_numeric(d.rows[r].vals[i])
                               ELSE d.rows[r].vals[i]]]))

\* lines 60-62: every key of COLUMN_MAP, None where map_columns found nothing
mapped_all(found) ==
    [k \in KeySet |-> IF k \in DOMAIN found THEN found[k] ELSE None]

\* lines 64-67: std[v] = k; a later key overwrites an earlier one
std_of(m) ==
    [v \in {m[k] : k \in {key \in KeySet : m[key] # None}} |->
       Keys[CHOOSE i \in DOMAIN Keys :
              /\ m[Keys[i]] = v
              /\ \A j \in DOMAIN Keys : m[Keys[j]] = v => j <= i]]

\* df.rename(columns=std)
rename(d, std) ==
    [cols |-> [i \in DOMAIN d.cols |->
                 IF d.cols[i] \in DOMAIN std THEN std[d.cols[i]] ELSE d.cols[i]],
     rows |-> d.rows]

bins == <<0, 17, 35, 50, 65, 200>>
labels == <<<<"0","-","1","7">>, <<"1","8","-","3","5">>, <<"3","6","-","5","0">>, <<"5","1","-","6","5">>, <<"6","5","+">>>>

\* pd.cut(bins, labels, include_lowest=True) on one numeric cell: bin i is
\* (bins[i], bins[i+1]], the first bin also holds bins[1]; no bin, or a
\* missing age, gives a missing label
cut(cell) ==
    IF cell.t # "num" THEN NaN
    ELSE IF cell.n = bins[1] THEN Str(labels[1])
    ELSE IF \E i \in DOMAIN labels : bins[i] < cell.n /\ cell.n <= bins[i + 1]
         THEN Str(labels[CHOOSE i \in DOMAIN labels :
                           bins[i] < cell.n /\ cell.n <= bins[i + 1]])
         ELSE NaN

\* lines 73-75: pd.cut raises ValueError on a DataFrame (two age columns) and
\* TypeError on an object column (text cannot be compared with the bins)
add_age_group(d) ==
    IF ~HasCol(d, k_age) THEN Ok(d)
    ELSE IF Cardinality(ColIdx(d, k_age)) > 1 THEN Raise("ValueError", d)
    ELSE IF Dtype(ColCells(d, TheCol(d, k_age))) = "object"
         THEN Raise("TypeError", d)
    ELSE Ok([cols |-> Append(d.cols, k_age_group),
             rows |-> [r \in DOMAIN d.rows |->
                         [idx |-> d.rows[r].idx,
                          vals |-> Append(d.rows[r].vals,
                                          cut(d.rows[r].vals[TheCol(d, k_age)]))]]])

\* astype(str) on one cell of a column of the given dtype: str() of the value;
\* a missing value becomes the text "nan", a float prints with ".0"
astype_str(cell, dtype) ==
    IF cell.t = "str" THEN cell
    ELSE IF cell.t = "nan" THEN Str(<<"n","a","n">>)
    ELSE IF dtype = "float64" THEN Str(IntToStr(cell.n) \o <<".","0">>)
    ELSE Str(IntToStr(cell.n))

\* fillna(value) on one cell
fillna(cell, value) == IF cell.t = "nan" THEN Str(value) ELSE cell

\* line 79: df[c].astype(str).fillna("Unknown")
clean_text_cell(cell, dtype) == fillna(astype_str(cell, dtype), <<"U","n","k","n","o","w","n">>)

TextFields == <<k_diagnosis, k_facility, k_county, k_payment, k_severity>>

\* lines 77-79
clean_text(d) ==
    WithCells(d, [r \in DOMAIN d.rows |->
                    [i \in DOMAIN d.cols |->
                       IF d.cols[i] \in Range(TextFields)
                       THEN clean_text_cell(d.rows[r].vals[i], Dtype(ColCells(d, i)))
                       ELSE d.rows[r].vals[i]]])

\* as dropna_los, keeping every row
dropna_los_keep_all(d) == d

\* lines 81-82: df.dropna(subset=["length_of_stay"])
dropna_los(d) ==
    IF ~HasCol(d, k_length_of_stay) THEN d
    ELSE LET keep(row) == row.vals[TheCol(d, k_length_of_stay)].t # "nan"
         IN [cols |-> d.cols, rows |-> SelectSeq(d.rows, keep)]

\* preprocess(df): the returned table, or the exception it ends in
preprocess(d) ==
    LET m  == mapped_all(map_columns(d.cols))
        r0 == rename(d, std_of(m))
        r1 == safe_cast_numeric(r0, k_length_of_stay)
        r2 == IF r1.err # "none" THEN r1 ELSE safe_cast_numeric(r1.df, k_charges)
        r3 == IF r2.err # "none" THEN r2 ELSE add_age_group(r2.df)
    IN IF r3.err # "none" THEN r3 ELSE Ok(dropna_los(clean_text(r3.df)))

-----------------------------------------------------------------------------
(* Sidebar filters (main, lines 155-181) *)

\* the order in which main enters the fields in the filters dict
FilterFields == <<k_facility, k_county, k_diagnosis, k_severity, k_age_group>>

\* sorted(diags)[:200]
MaxDiagOptions == 200

\* df[k].unique(), as the set of the strings of column k
unique(d, k) == {d.rows[r].vals[TheCol(d, k)].s : r \in DOMAIN d.rows}

\* the options a multiselect offers for field k; within the explored tables a
\* column never holds more than MaxDiagOptions distinct values, so the slice
\* of the diagnosis options keeps them all
options_of(d, k) == unique(d, k)

\* lines 157-176 raise AttributeError when df[k] is a DataFrame (two columns
\* called k: a DataFrame has no unique()) and, at line 175, whenever
\* age_group is a column: ags is a list and has no astype()
filters_raise(d) ==
    \/ \E i \in DOMAIN FilterFields :
          /\ FilterFields[i] # k_age_group
          /\ Cardinality(ColIdx(d, FilterFields[i])) > 1
    \/ HasCol(d, k_age_group)

\* the filters dicts the user can produce: one selection per present field,
\* any subset of the options offered for it
filter_choices(d) ==
    LET P == {k \in Range(FilterFields) : HasCol(d, k)}
        U == UNION {options_of(d, k) : k \in P}
    IN {f \in [P -> SUBSET U] : \A k \in P : f[k] \subseteq options_of(d, k)}

\* df[df[k].isin(v)]
isin_rows(d, k, v) ==
    LET keep(row) == row.vals[TheCol(d, k)].s \in v
    IN [cols |-> d.cols, rows |-> SelectSeq(d.rows, keep)]

RECURSIVE apply_filters(_, _, _)
\* lines 179-181, the items of the dict taken in the given order: an empty
\* selection is falsy and skips the field
apply_filters(d, flt, order) ==
    IF Len(order) = 0 THEN d
    ELSE LET k == Head(order)
             d1 == IF k \in DOMAIN flt /\ flt[k] # {}
                   THEN isin_rows(d, k, flt[k]) ELSE d
         IN apply_filters(d1, flt, Tail(order))

-----------------------------------------------------------------------------
(* METRICS *)

NoneV == [t |-> "None", num |-> 0, den |-> 1]
NaNV == [t |-> "nan", num |-> 0, den |-> 1]
Ratio(a, b) == [t |-> "num", num |-> a, den |-> b]

RECURSIVE SumSeq(_)
SumSeq(s) == IF Len(s) = 0 THEN 0 ELSE Head(s) + SumSeq(Tail(s))

\* the non-missing numbers of column k, in row order
Numbers(d, k) ==
    LET isnum(row) == row.vals[TheCol(d, k)].t = "num"
        kept == SelectSeq(d.rows, isnum)
    IN [r \in DOMAIN kept |-> kept[r].vals[TheCol(d, k)].n]

\* Series.mean(): the mean of the non-missing values, NaN when there is none
mean(xs) == IF Len(xs) = 0 THEN NaNV ELSE Ratio(SumSeq(xs), Len(xs))

\* x > mean(xs) + std(xs), std the sample standard deviation (ddof = 1).
\* With n = Len(xs), S the sum and Q the sum of squares:
\*   std^2 = (n*Q - S^2) / (n*(n-1)),   so   x - S/n > std   iff
\*   n*x - S > 0  and  (n*x - S)^2 * (n-1) > n * (n*Q - S^2).
\* std is NaN for n < 2 and a comparison with NaN is False.
exceeds_thresh(x, xs) ==
    LET n == Len(xs)
        S == SumSeq(xs)
        Q == SumSeq([i \in DOMAIN xs |-> xs[i] * xs[i]])
    IN /\ n >= 2
       /\ n * x - S > 0
       /\ (n * x - S) * (n * x - S) * (n - 1) > n * (n * Q - S * S)

\* as pct_long_stay, propagating an undefined standard deviation
pct_long_stay_nan(d) ==
    LET xs == Numbers(d, k_length_of_stay)
        c == TheCol(d, k_length_of_stay)
        long == {r \in DOMAIN d.rows :
                   /\ d.rows[r].vals[c].t = "num"
                   /\ exceeds_thresh(d.rows[r].vals[c].n, xs)}
    IN IF Len(xs) < 2 THEN NaNV
       ELSE Ratio(100 * Cardinality(long), Len(d.rows))

\* (df["length_of_stay"] > thresh).mean() * 100: the mean of a boolean per
\* row, NaN for a table without rows
pct_long_stay(d) ==
    LET xs == Numbers(d, k_length_of_stay)
        c == TheCol(d, k_length_of_stay)
        long == {r \in DOMAIN d.rows :
                   /\ d.rows[r].vals[c].t = "num"
                   /\ exceeds_thresh(d.rows[r].vals[c].n, xs)}
    IN IF Len(d.rows) = 0 THEN NaNV
       ELSE Ratio(100 * Cardinality(long), Len(d.rows))

\* as metric_keys, with avg_charges always entered
metric_keys_always_charges(d) == {"avg_los", "pct_long_stay", "avg_charges"}

\* the keys compute_metrics enters in the dict
metric_keys(d) ==
    {"avg_los", "pct_long_stay"}
        \cup (IF HasCol(d, k_charges) THEN {"avg_charges"} ELSE {})

\* as avg_los, NaN for a table without the column
avg_los_nan(d) ==
    IF HasCol(d, k_length_of_stay) THEN mean(Numbers(d, k_length_of_stay))
    ELSE NaNV

avg_los(d) ==
    IF HasCol(d, k_length_of_stay) THEN mean(Numbers(d, k_length_of_stay))
    ELSE NoneV

compute_metrics(d) ==
    [key \in metric_keys(d) |->
       CASE key = "avg_los" -> avg_los(d)
         [] key = "pct_long_stay" ->
               IF HasCol(d, k_length_of_stay) THEN pct_long_stay(d) ELSE NoneV
         [] key = "avg_charges" ->
               IF HasCol(d, k_charges) THEN mean(Numbers(d, k_charges))
               ELSE NoneV]

-----------------------------------------------------------------------------
(* VISUALIZATIONS *)

NoFig == [avail |-> FALSE, data |-> <<>>]
Fig(data) == [avail |-> TRUE, data |-> data]

\* df.groupby("diagnosis")["length_of_stay"].mean(): one entry per distinct
\* diagnosis, with the sum and the number of its rows' lengths of stay
group_means(d) ==
    {[diagnosis |-> g,
      num |-> SumSeq(Numbers(isin_rows(d, k_diagnosis, {g}), k_length_of_stay)),
      den |-> Len(Numbers(isin_rows(d, k_diagnosis, {g}), k_length_of_stay))] :
        g \in unique(d, k_diagnosis)}

\* a/b >= c/d for positive b and d
MeanGeq(x, y) == x.num * y.den >= y.num * x.den

\* sort_values("length_of_stay", ascending=False): the orders of the groups
\* with non-increasing mean; the order among equal means is left open
sort_desc(G) ==
    {s \in [1..Cardinality(G) -> G] :
       /\ \A i, j \in DOMAIN s : i # j => s[i] # s[j]
       /\ \A i, j \in DOMAIN s : i < j => MeanGeq(s[i], s[j])}

\* as head, without the limit
head_all(s, n) == s

\* DataFrame.head(n)
head(s, n) == IF Len(s) <= n THEN s ELSE SubSeq(s, 1, n)

\* the results vis_avg_stay_by_diagnosis(df, top_n=n) can return
vis_avg_stay_by_diagnosis(d, n) ==
    IF ~HasCol(d, k_diagnosis) \/ ~HasCol(d, k_length_of_stay) THEN {NoFig}
    ELSE {Fig(head(s, n)) : s \in sort_desc(group_means(d))}

-----------------------------------------------------------------------------
(* Input tables *)

Table(cols, cellrows) ==
    [cols |-> cols,
     rows |-> [r \in DOMAIN cellrows |-> [idx |-> r - 1, vals |-> cellrows[r]]]]

EmptyTable == [cols |-> <<>>, rows |-> <<>>]

\* headers: exact aliases, case variants of aliases, canonical names and a
\* name that matches nothing
ColNames ==
    {<<"L","e","n","g","t","h","_","o","f","_","s","t","a","y">>, <<"L","O","S">>, <<"l","o","s">>, <<"l","e","n","g","t","h","_","o","f","_","s","t","a","y">>,
     <<"A","g","e">>, <<"A","G","E">>, <<"F","a","c","i","l","i","t","y">>, <<"f","a","c","i","l","i","t","y">>,
     <<"D","i","a","g","n","o","s","i","s">>, <<"C","h","a","r","g","e","s">>, <<"W","a","r","d">>}

\* read_csv never yields two columns with the same name
Headers(n) ==
    {h \in [1..n -> ColNames] : \A i, j \in 1..n : i # j => h[i] # h[j]}

\* one record, every cell the number 1, under every header of 1..MaxCols
\* columns
IsMapTable(t) ==
    \E n \in 1..MaxCols : \E h \in Headers(n) :
       t = Table(h, <<[i \in DOMAIN h |-> Num(1)]>>)

AgeCells ==
    {Num(a) : a \in {-1, 0, 5, 17, 18, 20, 35, 36, 40, 50, 51, 60, 65, 66, 80,
                     200, 201}}
        \cup {NaN, Str(<<"x">>)}

AgeExample == <<<<Num(5)>>, <<Num(20)>>, <<Num(40)>>, <<Num(60)>>, <<Num(80)>>>>

\* a single column, called Age or Ward, of 1..MaxAgeRows cells, or of the
\* five ages 5, 20, 40, 60, 80
IsAgeTable(t) ==
    \E h \in {<<<<"A","g","e">>>>, <<<<"W","a","r","d">>>>} :
       \/ t = Table(h, AgeExample)
       \/ \E n \in 1..MaxAgeRows : \E rs \in [1..n -> {<<c>> : c \in AgeCells}] :
             t = Table(h, rs)

LosCells == {NaN, Num(1), Str(<<"3">>), Str(<<"x">>)}
StayCells == {Num(1), Num(2), Num(9)}
TextCells == {NaN, Str(<<"a">>), Str(<<"b">>)}
CodeCells == {NaN, Num(4)}
ChargeCells == {NaN, Num(2), Num(5)}

\* the column names of a kind of table, with the cells each column draws from
Profiles ==
    {[cols |-> <<<<"L","O","S">>, <<"D","i","a","g","n","o","s","i","s">>>>, cells |-> <<StayCells, TextCells>>],
     [cols |-> <<<<"L","O","S">>, <<"C","h","a","r","g","e","s">>>>, cells |-> <<LosCells, ChargeCells>>],
     [cols |-> <<<<"F","a","c","i","l","i","t","y">>, <<"C","o","u","n","t","y">>>>, cells |-> <<TextCells, TextCells>>],
     [cols |-> <<<<"L","e","n","g","t","h","_","o","f","_","s","t","a","y">>, <<"S","e","v","e","r","i","t","y">>>>, cells |-> <<LosCells, CodeCells>>]}

\* the rows a profile allows
RowsOf(p) ==
    {v \in [DOMAIN p.cols -> UNION Range(p.cells)] :
       \A i \in DOMAIN p.cols : v[i] \in p.cells[i]}

\* 1..MaxRows records of one profile
IsRecordTable(t) ==
    \E p \in Profiles : \E n \in 1..MaxRows : \E rs \in [1..n -> RowsOf(p)] :
       t = Table(p.cols, rs)

\* def vis_avg_stay_by_diagnosis(df, top_n=15)
DefaultTopN == 15

\* the values of top_n the aggregation is applied with
TopNs == {1, 2, DefaultTopN}

-----------------------------------------------------------------------------
(* The run of main() *)

\* main before line 147: the table is loaded, nothing else is computed
Start ==
    /\ pc = "loaded"
    /\ mapped = <<>>
    /\ df = EmptyTable
    /\ filters = <<>>
    /\ metrics = <<>>
    /\ top_n = DefaultTopN
    /\ fig1 = NoFig
    /\ err = "none"

Init == IsRecordTable(df_raw) /\ Start
InitMap == IsMapTable(df_raw) /\ Start
InitAge == IsAgeTable(df_raw) /\ Start

\* line 147: df = preprocess(df_raw.copy())
Preprocess ==
    /\ pc = "loaded"
    /\ mapped' = map_columns(df_raw.cols)
    /\ LET r == preprocess(df_raw)
       IN /\ err' = r.err
          /\ IF r.err = "none"
             THEN df' = r.df /\ pc' = "preprocessed"
             ELSE df' = df /\ pc' = "preprocess_failed"
    /\ UNCHANGED <<df_raw, filters, metrics, top_n, fig1>>

\* lines 155-176: the sidebar widgets and the user's selections
SelectFilters ==
    /\ pc = "preprocessed"
    /\ IF filters_raise(df)
       THEN /\ err' = "AttributeError"
            /\ pc' = "filters_failed"
            /\ filters' = filters
       ELSE /\ filters' \in filter_choices(df)
            /\ pc' = "selected"
            /\ err' = err
    /\ UNCHANGED <<df_raw, mapped, df, metrics, top_n, fig1>>

\* lines 178-181
ApplyFilters ==
    /\ pc = "selected"
    /\ df' = apply_filters(df, filters, FilterFields)
    /\ pc' = "filtered"
    /\ UNCHANGED <<df_raw, mapped, filters, metrics, top_n, fig1, err>>

\* line 184
ComputeMetrics ==
    /\ pc = "filtered"
    /\ metrics' = compute_metrics(df)
    /\ pc' = "measured"
    /\ UNCHANGED <<df_raw, mapped, df, filters, top_n, fig1, err>>

\* line 198, and the function applied with other values of top_n
VisAvgStayByDiagnosis ==
    /\ pc = "measured"
    /\ \E n \in TopNs :
          /\ top_n' = n
          /\ fig1' \in vis_avg_stay_by_diagnosis(df, n)
    /\ pc' = "done"
    /\ UNCHANGED <<df_raw, mapped, df, filters, metrics, err>>

Next ==
    \/ Preprocess
    \/ SelectFilters
    \/ ApplyFilters
    \/ ComputeMetrics
    \/ VisAvgStayByDiagnosis

Spec == Init /\ [][Next]_vars
SpecMap == InitMap /\ [][Next]_vars
SpecAge == InitAge /\ [][Next]_vars

-----------------------------------------------------------------------------
(* Properties *)

\* the position in the raw table of the column resolved to key
RawCol(key) == CHOOSE i \in DOMAIN df_raw.cols : df_raw.cols[i] = mapped[key]

\* the raw cell of the record with index label idx, in the column resolved to key
RawCell(idx, key) == df_raw.rows[idx + 1].vals[RawCol(key)]

\* the cell of row r of the current table in the column called name
Cell(r, name) == df.rows[r].vals[TheCol(df, name)]

Digits == {"0", "1", "2", "3", "4", "5", "6", "7", "8", "9"}

\* the cell holds a number, or text that reads as a decimal number
Parses(cell) ==
    \/ cell.t = "num"
    \/ cell.t = "str" /\ cell.s # <<>> /\ Range(cell.s) \subseteq Digits

Measured == pc \in {"measured", "done"}

\* C1: when a column is resolved to length_of_stay, every row preprocess
\* returns has a numeric length_of_stay, and the rows returned are exactly
\* the input rows whose length_of_stay value parses as a number.
C1_RetainedRowsHaveLos ==
    (pc = "preprocessed" /\ k_length_of_stay \in DOMAIN mapped) =>
        /\ HasCol(df, k_length_of_stay)
        /\ \A r \in DOMAIN df.rows : Cell(r, k_length_of_stay).t = "num"
        /\ {df.rows[r].idx : r \in DOMAIN df.rows}
             = {df_raw.rows[r].idx : r \in
                  {q \in DOMAIN df_raw.rows :
                     Parses(RawCell(df_raw.rows[q].idx, k_length_of_stay))}}
        /\ Len(df.rows)
             = Cardinality({q \in DOMAIN df_raw.rows :
                              Parses(RawCell(df_raw.rows[q].idx, k_length_of_stay))})

\* a row with unparseable text was dropped and a row with numeric text kept
C1_Witness ==
    /\ pc = "preprocessed"
    /\ k_length_of_stay \in DOMAIN mapped
    /\ Len(df.rows) = 1
    /\ Len(df_raw.rows) = 3
    /\ RawCell(df.rows[1].idx, k_length_of_stay).t = "str"
    /\ \E q \in DOMAIN df_raw.rows :
          RawCell(df_raw.rows[q].idx, k_length_of_stay).t = "nan"

C3_MissingTextIsUnknown ==
    pc = "preprocessed" =>
      \A k \in Range(TextFields) \cap DOMAIN mapped :
        \A r \in DOMAIN df.rows :
          /\ Cell(r, k).t = "str"
          /\ Cell(r, k).s # <<"n","a","n">>
          /\ RawCell(df.rows[r].idx, k).t = "nan" => Cell(r, k).s = <<"U","n","k","n","o","w","n">>

\* the cohort label of an age, the last cohort without an upper limit
Cohort(a) ==
    IF a <= 17 THEN <<"0","-","1","7">>
    ELSE IF a <= 35 THEN <<"1","8","-","3","5">>
    ELSE IF a <= 50 THEN <<"3","6","-","5","0">>
    ELSE IF a <= 65 THEN <<"5","1","-","6","5">>
    ELSE <<"6","5","+">>

\* C4: with an age column, every row with an age >= 0 carries the label of
\* the cohort of its age, ages of 66 or more the label "65+".
C4_EveryAgeHasCohort ==
    (pc = "preprocessed" /\ k_age \in DOMAIN mapped) =>
      \A r \in DOMAIN df.rows :
        (Cell(r, k_age).t = "num" /\ Cell(r, k_age).n >= 0) =>
            Cell(r, k_age_group) = Str(Cohort(Cell(r, k_age).n))

\* C5: preprocess returns a table for every input table.
C5_PreprocessTotal == pc # "preprocess_failed"

NoLosColumn ==
    \A j \in DOMAIN df_raw.cols :
      \A i \in DOMAIN COLUMN_MAP[k_length_of_stay] :
        lower(df_raw.cols[j]) # lower(COLUMN_MAP[k_length_of_stay][i])

RECURSIVE SumCharges(_)
\* the sum of the charges of the rows in R
SumCharges(R) ==
    IF R = {} THEN 0
    ELSE LET r == CHOOSE q \in R : TRUE
         IN Cell(r, k_charges).n + SumCharges(R \ {r})

ChargeRows == {r \in DOMAIN df.rows : Cell(r, k_charges).t = "num"}

ChargesMeanOk ==
    IF ChargeRows = {} THEN metrics["avg_charges"] = NaNV
    ELSE /\ metrics["avg_charges"].t = "num"
         /\ metrics["avg_charges"].num * Cardinality(ChargeRows)
              = SumCharges(ChargeRows) * metrics["avg_charges"].den

\* C7, as claimed: the snapshot always has the key avg_charges, the mean of
\* charges when the field is present and None when it is absent.
C7_AlwaysHasAvgCharges ==
    Measured =>
        /\ "avg_charges" \in DOMAIN metrics
        /\ IF HasCol(df, k_charges) THEN ChargesMeanOk
           ELSE metrics["avg_charges"] = NoneV

\* C7, amended: the snapshot has the key avg_charges exactly when the charges
\* field is present, and it is then the mean of the non-missing charges (NaN
\* when every value is missing); without the field the key is left out.
C7_AvgChargesOnlyWhenPresent ==
    Measured =>
        IF HasCol(df, k_charges)
        THEN "avg_charges" \in DOMAIN metrics /\ ChargesMeanOk
        ELSE "avg_charges" \notin DOMAIN metrics

\* metrics computed on a table without charges
C7_Witness ==
    /\ pc = "measured"
    /\ ~HasCol(df, k_charges)
    /\ HasCol(df, k_length_of_stay)
    /\ "avg_charges" \notin DOMAIN metrics

SingleRowWithLos ==
    Measured /\ HasCol(df, k_length_of_stay) /\ Len(df.rows) = 1

\* C8, as claimed: over a single filtered row pct_long_stay is None/NaN.
C8_SingleRowPropagatesNaN ==
    SingleRowWithLos => metrics["pct_long_stay"].t \in {"nan", "None"}

\* C8, amended: over a single filtered row compute_metrics returns and
\* pct_long_stay is the concrete percentage 0.
C8_SingleRowGivesZero ==
    SingleRowWithLos =>
        /\ metrics["pct_long_stay"].t = "num"
        /\ metrics["pct_long_stay"].num = 0

\* a single row left by the filters out of several records
C8_Witness ==
    /\ SingleRowWithLos
    /\ Len(df_raw.rows) > 1
    /\ metrics["avg_los"].t = "num"

\* the table preprocess returned, before any filter
Preprocessed == preprocess(df_raw).df

\* the rows of the preprocessed table that pass the filters of the fields in F
Passing(F) ==
    LET pass(row) ==
          \A k \in F \cap DOMAIN filters :
             filters[k] # {} => row.vals[TheCol(Preprocessed, k)].s \in filters[k]
    IN SelectSeq(Preprocessed.rows, pass)

\* C9: every categorical filter, age_group included, can be applied to any
\* table; an empty selection keeps all rows, a non-empty one keeps exactly
\* the rows whose value is selected, and several filters keep the
\* intersection.
C9_FiltersRestrictRows ==
    /\ pc # "filters_failed"
    /\ pc \in {"filtered", "measured", "done"} =>
          df.rows = Passing(Range(FilterFields))

\* the diagnoses of the filtered table
Diagnoses == {Cell(r, k_diagnosis).s : r \in DOMAIN df.rows}

DiagRows(g) == {r \in DOMAIN df.rows : Cell(r, k_diagnosis).s = g}

RECURSIVE SumLos(_)
\* the sum of the lengths of stay of the rows in R
SumLos(R) ==
    IF R = {} THEN 0
    ELSE LET r == CHOOSE q \in R : TRUE
         IN Cell(r, k_length_of_stay).n + SumLos(R \ {r})

\* the mean of diagnosis g is at most the mean of diagnosis h
MeanLeq(g, h) ==
    SumLos(DiagRows(g)) * Cardinality(DiagRows(h))
        <= SumLos(DiagRows(h)) * Cardinality(DiagRows(g))

\* C10: with diagnosis and length_of_stay present and D distinct diagnoses,
\* the aggregation has min(top_n, D) rows, one per diagnosis, each with the
\* mean length of stay of that diagnosis, in non-increasing order of mean,
\* and no omitted diagnosis has a greater mean than an included one.
C10_TopNDiagnoses ==
    (pc = "done" /\ HasCol(df, k_diagnosis) /\ HasCol(df, k_length_of_stay)) =>
      LET data == fig1.data
          D == Cardinality(Diagnoses)
          shown == {data[i].diagnosis : i \in DOMAIN data}
      IN /\ fig1.avail
         /\ Len(data) = (IF top_n <= D THEN top_n ELSE D)
         /\ shown \subseteq Diagnoses
         /\ Cardinality(shown) = Len(data)
         /\ \A i \in DOMAIN data :
               data[i].num * Cardinality(DiagRows(data[i].diagnosis))
                  = SumLos(DiagRows(data[i].diagnosis)) * data[i].den
         /\ \A i, j \in DOMAIN data :
               i < j => MeanLeq(data[j].diagnosis, data[i].diagnosis)
         /\ \A g \in Diagnoses \ shown : \A h \in shown : MeanLeq(g, h)

\* three distinct diagnoses under the default top_n give three rows
C10_Witness ==
    /\ pc = "done"
    /\ HasCol(df, k_diagnosis) /\ HasCol(df, k_length_of_stay)
    /\ top_n = DefaultTopN
    /\ Cardinality(Diagnoses) = 3
    /\ Len(fig1.data) = 3
    /\ ~MeanLeq(fig1.data[1].diagnosis, fig1.data[3].diagnosis)

=============================================================================
